---------------------------- MODULE Spec2Model ----------------------------
(***************************************************************************)
(* The v2 local app data of realm-cli: AppDataV2.WriteData and             *)
(* AppDataV2.LoadData, the section writers and parsers they call, and the  *)
(* directory tree they work on.                                            *)
(*                                                                         *)
(* Go values are records [t, s, m, a]: t is the dynamic type, s the text   *)
(* (a string is kept as the sequence of its '/'-separated components, so   *)
(* that filepath.Join can be computed), m the entries of a map and a the   *)
(* elements of a slice.  A file's bytes are the JSON value they encode, or *)
(* raw text.  A path is the sequence of its components below the root      *)
(* directory of the app.                                                   *)
(***************************************************************************)
EXTENDS Integers, Sequences, FiniteSets, TLC

\* ------------------------------------------------------------ bounds
\* Calls of WriteData / LoadData in one behaviour.
MaxCalls == 2
\* Data sources in a model.
MaxDS == 2
\* Entries of the function sources map.
MaxSources == 2

\* ------------------------------------------------------------ Go values
Val(t, s, m, a) == [t |-> t, s |-> s, m |-> m, a |-> a]

\* a Go string, given by its path components ("" is <<>>)
Str(c) == Val("str", c, <<>>, <<>>)
\* a float64 (what encoding/json decodes a number to)
Num == Val("num", <<"1">>, <<>>, <<>>)
\* the nil interface{} value, and JSON null
Null == Val("null", <<>>, <<>>, <<>>)
\* a non-nil map[string]interface{} with entries kv
Obj(kv) == Val("obj", <<>>, kv, <<>>)
\* a nil map[string]interface{}
NilMap == Val("nilmap", <<>>, <<>>, <<>>)
\* a non-nil []map[string]interface{}
Arr(x) == Val("arr", <<>>, <<>>, x)
\* a nil []map[string]interface{}
NilArr == Val("nilarr", <<>>, <<>>, <<>>)
\* file bytes that are the text c and no JSON document
Txt(c) == Val("txt", c, <<>>, <<>>)
\* a Go string holding the JSON text of b
JsonStr(b) == Val("jsonstr", <<>>, <<>>, <<b>>)

Keys(v) == DOMAIN v.m
Has(v, k) == v.t = "obj" /\ k \in Keys(v)
\* v[k] of a map read: the nil interface when the key is missing
Get(v, k) == IF Has(v, k) THEN v.m[k] ELSE Null
\* v[k] = x
Put(v, k, x) == Obj([j \in Keys(v) \cup {k} |-> IF j = k THEN x ELSE v.m[j]])
\* delete(v, k)
Delete(v, k) == Obj([j \in Keys(v) \ {k} |-> v.m[j]])
\* x, ok := v.(string)
IsString(v) == v.t \in {"str", "jsonstr"}

\* ------------------------------------------------------------ names
NameAuth == "auth"
NameFunctions == "functions"
NameSync == "sync"
NameGraphQL == "graphql"
NameDataSources == "data_sources"
NameHTTPEndpoints == "http_endpoints"
NameValues == "values"
NameTriggers == "triggers"
NameServices == "services"
NameSchema == "schema"
NameSource == "source"
FileConfig == "config.json"
FileProviders == "providers.json"
FileCustomUserData == "custom_user_data.json"
FileRules == "rules.json"
FileSchema == "schema.json"
FileSource == "source.js"
extJS == {"a.js", "b.js", "source.js"}

\* Every entry name a directory of the model can hold, in the byte order
\* ioutil.ReadDir sorts by.
NameOrder ==
  << "%!s(<nil>)", "%!s(float64=1)", "a.js", "auth", "b.js", "coll1", "coll2",
     "config.json", "custom_user_data.json", "data_sources", "db1", "db2", "ds1",
     "ds2", "ep1", "functions", "graphql", "http_endpoints", "lib",
     "notes.txt", "providers.json", "rules.json", "schema.json", "services",
     "source.js", "sync", "triggers", "values", "wh1" >>

Rank(n) == CHOOSE i \in 1..Len(NameOrder) : NameOrder[i] = n

\* ------------------------------------------------------------ paths
RECURSIVE CleanFrom(_, _, _)
CleanFrom(p, i, acc) ==
  IF i > Len(p) THEN acc
  ELSE LET c == p[i] IN
       IF c = "." \/ c = "" THEN CleanFrom(p, i + 1, acc)
       ELSE IF c = ".." /\ Len(acc) > 0 /\ acc[Len(acc)] # ".."
            THEN CleanFrom(p, i + 1, SubSeq(acc, 1, Len(acc) - 1))
            ELSE CleanFrom(p, i + 1, Append(acc, c))

\* filepath.Clean on the components of a path
Clean(p) == CleanFrom(p, 1, <<>>)
\* filepath.Join(dir, elems...)
Join(dir, p) == Clean(dir \o p)
\* filepath.Dir
Dir(p) == SubSeq(p, 1, Len(p) - 1)
Base(p) == p[Len(p)]
IsUnder(p, dir) == Len(p) > Len(dir) /\ SubSeq(p, 1, Len(dir)) = dir
\* filepath.Rel(dir, p) for p under dir
Rel(dir, p) == SubSeq(p, Len(dir) + 1, Len(p))
\* filepath.Ext(path) == ".js"
IsJS(p) == Len(p) > 0 /\ Base(p) \in extJS
\* fmt.Sprintf("%s", v) as path components
Sprintf(v) ==
  CASE v.t = "str" -> v.s
    [] v.t = "num" -> <<"%!s(float64=1)">>
    [] OTHER -> <<"%!s(<nil>)">>

\* ------------------------------------------------------------ directory tree
EmptyFS == [files |-> <<>>, dirs |-> {<<>>}]
Files(fs) == DOMAIN fs.files
\* os.Stat(p) succeeds
Exists(fs, p) == p \in fs.dirs \/ p \in Files(fs)
Prefixes(p) == {SubSeq(p, 1, i) : i \in 0..Len(p)}

\* The result of a writer: the tree, the paths WriteFile wrote, the error.
Res(fs, wr, err) == [fs |-> fs, wr |-> wr, err |-> err]
Start(fs) == Res(fs, {}, "")
Failed(r, e) == [r EXCEPT !.err = e]

\* os.MkdirAll(p)
MkdirAll(r, p) ==
  IF r.err # "" THEN r
  ELSE IF \E q \in Prefixes(p) : q \in Files(r.fs)
       THEN Failed(r, "mkdir: not a directory")
       ELSE [r EXCEPT !.fs.dirs = @ \cup Prefixes(p)]

\* WriteFile(path, perm, reader): the parent directories, then the file
WriteFile(r, p, bytes) ==
  LET d == MkdirAll(r, Dir(p)) IN
  IF d.err # "" THEN d
  ELSE IF p \in d.fs.dirs THEN Failed(d, "open: is a directory")
  ELSE [d EXCEPT !.fs.files = [q \in Files(d.fs) \cup {p} |->
                                 IF q = p THEN bytes ELSE d.fs.files[q]],
                 !.wr = @ \cup {p}]

\* ------------------------------------------------------------ documents
RECURSIVE Norm(_)
\* MarshalJSON(v): the bytes are the JSON value; a nil map or slice is null
Norm(v) ==
  CASE v.t \in {"nilmap", "nilarr"} -> Null
    [] v.t = "obj" -> Obj([k \in Keys(v) |-> Norm(v.m[k])])
    [] v.t = "arr" -> Arr([i \in 1..Len(v.a) |-> Norm(v.a[i])])
    [] OTHER -> v
MarshalJSON(v) == Norm(v)

\* []byte(s)
Bytes(s) == IF s.t = "jsonstr" THEN s.a[1] ELSE Txt(s.s)
\* string(data)
String(b) == IF b.t = "txt" THEN Str(b.s) ELSE JsonStr(b)

Parsed(v, err) == [v |-> v, err |-> err]

\* parseJSON(path): a missing file is no document and no error
parseJSON(fs, p) ==
  IF p \notin Files(fs) THEN
    IF \E q \in Prefixes(Dir(p)) : q \in Files(fs)
    THEN Parsed(NilMap, "stat: not a directory")
    ELSE Parsed(NilMap, "")
  ELSE LET b == fs.files[p] IN
       CASE b.t = "obj" -> Parsed(b, "")
         [] b.t = "null" -> Parsed(NilMap, "")
         [] OTHER -> Parsed(NilMap, "failed to parse json")

\* parseJSONArray(path): a missing file is no documents and no error
parseJSONArray(fs, p) ==
  IF p \notin Files(fs) THEN
    IF \E q \in Prefixes(Dir(p)) : q \in Files(fs)
    THEN Parsed(NilArr, "stat: not a directory")
    ELSE Parsed(NilArr, "")
  ELSE LET b == fs.files[p] IN
       CASE b.t = "arr" -> Parsed(b, "")
         [] b.t = "null" -> Parsed(NilArr, "")
         [] OTHER -> Parsed(NilArr, "failed to parse json")

\* ------------------------------------------------------------ walking
Children(fs, p) ==
  {q \in fs.dirs \cup Files(fs) :
     Len(q) = Len(p) + 1 /\ IsUnder(q, p) /\ Base(q) # ".."}

RECURSIVE SortNames(_)
SortNames(S) ==
  IF S = {} THEN <<>>
  ELSE LET n == CHOOSE x \in S : \A y \in S : Rank(x) <= Rank(y)
       IN <<n>> \o SortNames(S \ {n})

\* directoryWalker{path: p, onlyDirs: true}.walk: the paths visited, in order
WalkDirs(fs, p) ==
  LET names == SortNames({Base(q) : q \in {c \in Children(fs, p) : c \in fs.dirs}})
  IN [i \in 1..Len(names) |-> Append(p, names[i])]


\* ------------------------------------------------------------ the app data
\* *AuthStructure
Auth(cud, providers) == [isNil |-> FALSE, CustomUserData |-> cud, Providers |-> providers]
NilAuth == [isNil |-> TRUE, CustomUserData |-> NilMap, Providers |-> NilMap]
\* *SyncStructure
Sync(config) == [isNil |-> FALSE, Config |-> config]
NilSync == [isNil |-> TRUE, Config |-> NilMap]
\* *FunctionsStructure: Sources maps a key (the components of the string) to the source text
Functions(configs, sources) == [isNil |-> FALSE, Configs |-> configs, Sources |-> sources]
NilFunctions == [isNil |-> TRUE, Configs |-> NilArr, Sources |-> <<>>]
\* *GraphQLStructure
GraphQL(config) == [isNil |-> FALSE, Config |-> config]
NilGraphQL == [isNil |-> TRUE, Config |-> NilMap]
DataSourceStructure(config, rules) == [Config |-> config, Rules |-> rules]
HTTPEndpointStructure(config, webhooks) == [Config |-> config, IncomingWebhooks |-> webhooks]

\* AppStructureV2, the sections LoadData and WriteData handle
AppStructureV2(auth, sync, functions, graphql, dataSources, httpEndpoints) ==
  [ Secrets |-> NilMap, Environments |-> NilMap, Values |-> <<>>,
    Auth |-> auth, Sync |-> sync, Functions |-> functions, Triggers |-> <<>>,
    GraphQL |-> graphql, Services |-> <<>>, DataSources |-> dataSources,
    HTTPEndpoints |-> httpEndpoints ]

\* ------------------------------------------------------------ section writers
RECURSIVE writeSources(_, _, _, _, _)
\* for path, src := range sources, in the iteration order `order`
writeSources(r, dir, sources, order, i) ==
  IF i > Len(order) \/ r.err # "" THEN r
  ELSE writeSources(WriteFile(r, Join(dir, order[i]), Bytes(sources[order[i]])),
                    dir, sources, order, i + 1)

writeFunctionsV2(r, functions, order) ==
  LET configs == IF functions.isNil THEN Arr(<<>>) ELSE functions.Configs
      sources == IF functions.isNil THEN <<>> ELSE functions.Sources
      dir == <<NameFunctions>>
      r1 == WriteFile(r, Join(dir, <<FileConfig>>), MarshalJSON(configs))
  IN writeSources(r1, dir, sources, order, 1)

writeAuth(r, auth) ==
  IF auth.isNil THEN r
  ELSE LET dir == <<NameAuth>>
           r1 == IF auth.Providers.t # "nilmap"
                 THEN WriteFile(r, Join(dir, <<FileProviders>>), MarshalJSON(auth.Providers))
                 ELSE r
       IN IF r1.err = "" /\ auth.CustomUserData.t # "nilmap"
          THEN WriteFile(r1, Join(dir, <<FileCustomUserData>>), MarshalJSON(auth.CustomUserData))
          ELSE r1

writeSync(r, sync) ==
  IF sync.isNil \/ sync.Config.t = "nilmap" THEN r
  ELSE WriteFile(r, Join(<<NameSync>>, <<FileConfig>>), MarshalJSON(sync.Config))

\* the directory of a rule: dir, name, Sprintf(rule["database"]), Sprintf(rule["collection"])
RuleDir(dir, name, rule) ==
  Join(dir, name \o Sprintf(Get(rule, "database")) \o Sprintf(Get(rule, "collection")))

RECURSIVE writeRules(_, _, _, _, _)
\* The loop with the rule marshalled as it is, the schema key not deleted.
writeRules_keepSchema(r, dir, name, rules, i) ==
  IF i > Len(rules) \/ r.err # "" THEN r
  ELSE LET rule == rules[i]
           dataSchema == MarshalJSON(Get(rule, NameSchema))
           dataRule == MarshalJSON(rule)
           r1 == WriteFile(r, Join(RuleDir(dir, name, rule), <<FileRules>>), dataRule)
           r2 == IF r1.err # "" THEN r1
                 ELSE WriteFile(r1, Join(RuleDir(dir, name, rule), <<FileSchema>>), dataSchema)
       IN writeRules(r2, dir, name, rules, i + 1)

\* for _, rule := range ds.Rules
writeRules(r, dir, name, rules, i) ==
  IF i > Len(rules) \/ r.err # "" THEN r
  ELSE LET rule == rules[i]
           dataSchema == MarshalJSON(Get(rule, NameSchema))
           ruleTemp == Delete(rule, NameSchema)
           dataRule == MarshalJSON(ruleTemp)
           r1 == WriteFile(r, Join(RuleDir(dir, name, rule), <<FileRules>>), dataRule)
           r2 == IF r1.err # "" THEN r1
                 ELSE WriteFile(r1, Join(RuleDir(dir, name, rule), <<FileSchema>>), dataSchema)
       IN writeRules(r2, dir, name, rules, i + 1)

RECURSIVE writeDataSourcesFrom(_, _, _, _)
\* The loop with the missing name remembered and the later data sources still written.
writeDataSourcesFrom_continue(r, dir, dataSources, i) ==
  IF i > Len(dataSources) \/ r.err # "" THEN r
  ELSE LET ds == dataSources[i]
           name == Get(ds.Config, "name")
       IN IF ~IsString(name)
          THEN Failed(writeDataSourcesFrom(r, dir, dataSources, i + 1), "error writing datasources")
          ELSE LET r1 == WriteFile(r, Join(dir, name.s \o <<FileConfig>>), MarshalJSON(ds.Config))
                   r2 == writeRules(r1, dir, name.s, ds.Rules, 1)
               IN writeDataSourcesFrom(r2, dir, dataSources, i + 1)

\* for _, ds := range dataSources
writeDataSourcesFrom(r, dir, dataSources, i) ==
  IF i > Len(dataSources) \/ r.err # "" THEN r
  ELSE LET ds == dataSources[i]
           name == Get(ds.Config, "name")
       IN IF ~IsString(name) THEN Failed(r, "error writing datasources")
          ELSE LET r1 == WriteFile(r, Join(dir, name.s \o <<FileConfig>>), MarshalJSON(ds.Config))
                   r2 == writeRules(r1, dir, name.s, ds.Rules, 1)
               IN writeDataSourcesFrom(r2, dir, dataSources, i + 1)

writeDataSources(r, dataSources) ==
  LET dir == <<NameDataSources>>
  IN writeDataSourcesFrom(MkdirAll(r, dir), dir, dataSources, 1)

RECURSIVE writeWebhooks(_, _, _, _)
\* for _, webhook := range httpEndpoint.IncomingWebhooks
writeWebhooks(r, dirEndpoint, webhooks, i) ==
  IF i > Len(webhooks) \/ r.err # "" THEN r
  ELSE LET webhook == webhooks[i]
           src == Get(webhook, NameSource)
           name == Get(webhook, "name")
       IN IF ~IsString(src) \/ ~IsString(name) THEN Failed(r, "error writing http endpoints")
          ELSE LET dirHTTPEndpoint == Join(dirEndpoint, name.s)
                   webhookTemp == Delete(webhook, NameSource)
                   r1 == WriteFile(r, Join(dirHTTPEndpoint, <<FileConfig>>), MarshalJSON(webhookTemp))
                   r2 == IF r1.err # "" THEN r1
                         ELSE WriteFile(r1, Join(dirHTTPEndpoint, <<FileSource>>), Bytes(src))
               IN writeWebhooks(r2, dirEndpoint, webhooks, i + 1)

RECURSIVE writeHTTPEndpointsFrom(_, _, _, _)
\* for _, httpEndpoint := range httpEndpoints
writeHTTPEndpointsFrom(r, dir, httpEndpoints, i) ==
  IF i > Len(httpEndpoints) \/ r.err # "" THEN r
  ELSE LET httpEndpoint == httpEndpoints[i]
           nameHTTPEndpoint == Get(httpEndpoint.Config, "name")
       IN IF ~IsString(nameHTTPEndpoint) THEN Failed(r, "error writing http endpoints")
          ELSE LET r1 == WriteFile(r, Join(dir, nameHTTPEndpoint.s \o <<FileConfig>>),
                                   MarshalJSON(httpEndpoint.Config))
                   r2 == writeWebhooks(r1, Join(dir, nameHTTPEndpoint.s),
                                       httpEndpoint.IncomingWebhooks, 1)
               IN writeHTTPEndpointsFrom(r2, dir, httpEndpoints, i + 1)

writeHTTPEndpoints(r, httpEndpoints) ==
  LET dir == <<NameHTTPEndpoints>>
  IN writeHTTPEndpointsFrom(MkdirAll(r, dir), dir, httpEndpoints, 1)

\* The writers of the sections the models here leave empty.
writeSecrets(r, secrets) == r
writeEnvironments(r, environments) == r
writeValues(r, values) == MkdirAll(r, <<NameValues>>)
writeServices(r, services) == MkdirAll(r, <<NameServices>>)
writeTriggers(r, triggers) == MkdirAll(r, <<NameTriggers>>)
writeGraphQL(r, graphQL) ==
  WriteFile(r, Join(<<NameGraphQL>>, <<FileConfig>>), MarshalJSON(graphQL.Config))

\* The section writers WriteData calls, in its order.
WriteOrder ==
  << "secrets", "environments", "values", "graphql", "services", "functions",
     "auth", "sync", "data_sources", "http_endpoints", "http_endpoints", "triggers" >>

\* One section writer of WriteData, on the app data `app`; `order` is the
\* iteration order of the function sources map.
WriteSection(sec, r, app, order) ==
  CASE sec = "secrets" -> writeSecrets(r, app.Secrets)
    [] sec = "environments" -> writeEnvironments(r, app.Environments)
    [] sec = "values" -> writeValues(r, app.Values)
    [] sec = "graphql" ->
         writeGraphQL(r, IF app.GraphQL.isNil THEN GraphQL(NilMap) ELSE app.GraphQL)
    [] sec = "services" -> writeServices(r, app.Services)
    [] sec = "functions" -> writeFunctionsV2(r, app.Functions, order)
    [] sec = "auth" -> writeAuth(r, app.Auth)
    [] sec = "sync" -> writeSync(r, app.Sync)
    [] sec = "data_sources" -> writeDataSources(r, app.DataSources)
    [] sec = "http_endpoints" -> writeHTTPEndpoints(r, app.HTTPEndpoints)
    [] sec = "triggers" -> writeTriggers(r, app.Triggers)


\* ------------------------------------------------------------ section parsers
\* parseAuth with a missing auth directory read as an empty AuthStructure.
parseAuth_present(fs) ==
  LET dir == <<NameAuth>>
      customUserData == parseJSON(fs, Join(dir, <<FileCustomUserData>>))
      providers == parseJSON(fs, Join(dir, <<FileProviders>>))
  IN IF customUserData.err # "" THEN Parsed(NilAuth, customUserData.err)
     ELSE IF providers.err # "" THEN Parsed(NilAuth, providers.err)
     ELSE Parsed(Auth(customUserData.v, providers.v), "")

parseAuth(fs) ==
  LET dir == <<NameAuth>> IN
  IF ~Exists(fs, dir) THEN Parsed(NilAuth, "")
  ELSE LET customUserData == parseJSON(fs, Join(dir, <<FileCustomUserData>>))
           providers == parseJSON(fs, Join(dir, <<FileProviders>>))
       IN IF customUserData.err # "" THEN Parsed(NilAuth, customUserData.err)
          ELSE IF providers.err # "" THEN Parsed(NilAuth, providers.err)
          ELSE Parsed(Auth(customUserData.v, providers.v), "")

parseSync(fs) ==
  LET dir == <<NameSync>> IN
  IF ~Exists(fs, dir) THEN Parsed(NilSync, "")
  ELSE LET config == parseJSON(fs, Join(dir, <<FileConfig>>))
       IN IF config.err # "" THEN Parsed(NilSync, config.err)
          ELSE Parsed(Sync(config.v), "")

\* walk(dir, fn): the files at any depth under dir
WalkFiles(fs, dir) == {p \in Files(fs) : IsUnder(p, dir)}

\* parseFunctionsV2 walking the functions directory itself only, not its subtree.
parseFunctionsV2_oneLevel(fs) ==
  LET dir == <<NameFunctions>> IN
  IF ~Exists(fs, dir) THEN Parsed(NilFunctions, "")
  ELSE LET configs == parseJSONArray(fs, Join(dir, <<FileConfig>>))
           js == {p \in WalkFiles(fs, dir) : IsJS(p) /\ Dir(p) = dir}
           sources == [k \in {Rel(dir, p) : p \in js} |-> String(fs.files[dir \o k])]
       IN IF configs.err # "" THEN Parsed(NilFunctions, configs.err)
          ELSE Parsed(Functions(configs.v, sources), "")

parseFunctionsV2(fs) ==
  LET dir == <<NameFunctions>> IN
  IF ~Exists(fs, dir) THEN Parsed(NilFunctions, "")
  ELSE LET configs == parseJSONArray(fs, Join(dir, <<FileConfig>>))
           js == {p \in WalkFiles(fs, dir) : IsJS(p)}
           sources == [k \in {Rel(dir, p) : p \in js} |-> String(fs.files[dir \o k])]
       IN IF configs.err # "" THEN Parsed(NilFunctions, configs.err)
          ELSE Parsed(Functions(configs.v, sources), "")

\* The visitor of the colls walk: the rules so far and the error.
RECURSIVE parseColls(_, _, _, _)
\* parseColls reading rules.json in every collection directory, none skipped.
parseColls_noSkip(fs, colls, i, acc) ==
  IF i > Len(colls) \/ acc.err # "" THEN acc
  ELSE LET collPath == colls[i]
           rule == parseJSON(fs, Join(collPath, <<FileRules>>))
           schema == parseJSON(fs, Join(collPath, <<FileSchema>>))
       IN IF rule.err # "" THEN Parsed(acc.v, rule.err)
          ELSE IF schema.err # "" THEN Parsed(acc.v, schema.err)
          ELSE IF rule.v.t = "nilmap"
               THEN Parsed(acc.v, "panic: assignment to entry in nil map")
          ELSE parseColls(fs, colls, i + 1,
                          Parsed(Append(acc.v, Put(rule.v, NameSchema, schema.v)), ""))

parseColls(fs, colls, i, acc) ==
  IF i > Len(colls) \/ acc.err # "" THEN acc
  ELSE LET collPath == colls[i]
           rulePath == Join(collPath, <<FileRules>>)
       IN IF ~Exists(fs, rulePath) THEN parseColls(fs, colls, i + 1, acc)
          ELSE LET rule == parseJSON(fs, rulePath)
                   schema == parseJSON(fs, Join(collPath, <<FileSchema>>))
               IN IF rule.err # "" THEN Parsed(acc.v, rule.err)
                  ELSE IF schema.err # "" THEN Parsed(acc.v, schema.err)
                  ELSE IF rule.v.t = "nilmap"
                       THEN Parsed(acc.v, "panic: assignment to entry in nil map")
                  ELSE parseColls(fs, colls, i + 1,
                                  Parsed(Append(acc.v, Put(rule.v, NameSchema, schema.v)), ""))

RECURSIVE parseDBs(_, _, _, _)
parseDBs(fs, dbs, i, acc) ==
  IF i > Len(dbs) \/ acc.err # "" THEN acc
  ELSE parseDBs(fs, dbs, i + 1, parseColls(fs, WalkDirs(fs, dbs[i]), 1, acc))

RECURSIVE parseDataSourcesFrom(_, _, _, _)
parseDataSourcesFrom(fs, dss, i, out) ==
  IF i > Len(dss) \/ out.err # "" THEN out
  ELSE LET path == dss[i]
           config == parseJSON(fs, Join(path, <<FileConfig>>))
           rules == parseDBs(fs, WalkDirs(fs, path), 1, Parsed(<<>>, ""))
       IN IF config.err # "" THEN Parsed(out.v, config.err)
          ELSE IF rules.err # "" THEN Parsed(out.v, rules.err)
          ELSE parseDataSourcesFrom(fs, dss, i + 1,
                 Parsed(Append(out.v, DataSourceStructure(config.v, rules.v)), ""))

parseDataSources(fs) ==
  LET out == parseDataSourcesFrom(fs, WalkDirs(fs, <<NameDataSources>>), 1, Parsed(<<>>, ""))
  IN IF out.err # "" THEN Parsed(<<>>, out.err) ELSE out

RECURSIVE parseFunctions(_, _, _, _)
\* parseFunctions(path): the webhooks below an endpoint, each with its source
parseFunctions(fs, dirs, i, out) ==
  IF i > Len(dirs) \/ out.err # "" THEN out
  ELSE LET path == dirs[i]
           config == parseJSON(fs, Join(path, <<FileConfig>>))
           srcPath == Join(path, <<FileSource>>)
       IN IF config.err # "" THEN Parsed(out.v, config.err)
          ELSE IF srcPath \notin Files(fs) THEN Parsed(out.v, "open: no such file")
          ELSE IF config.v.t = "nilmap"
               THEN Parsed(out.v, "panic: assignment to entry in nil map")
          ELSE parseFunctions(fs, dirs, i + 1,
                 Parsed(Append(out.v, Put(config.v, NameSource, String(fs.files[srcPath]))), ""))

RECURSIVE parseHTTPEndpointsFrom(_, _, _, _)
parseHTTPEndpointsFrom(fs, eps, i, out) ==
  IF i > Len(eps) \/ out.err # "" THEN out
  ELSE LET path == eps[i]
           config == parseJSON(fs, Join(path, <<FileConfig>>))
           webhooks == parseFunctions(fs, WalkDirs(fs, path), 1, Parsed(<<>>, ""))
       IN IF config.err # "" THEN Parsed(out.v, config.err)
          ELSE IF webhooks.err # "" THEN Parsed(out.v, webhooks.err)
          ELSE parseHTTPEndpointsFrom(fs, eps, i + 1,
                 Parsed(Append(out.v, HTTPEndpointStructure(config.v, webhooks.v)), ""))

parseHTTPEndpoints(fs) ==
  LET out == parseHTTPEndpointsFrom(fs, WalkDirs(fs, <<NameHTTPEndpoints>>), 1, Parsed(<<>>, ""))
  IN IF out.err # "" THEN Parsed(<<>>, out.err) ELSE out

\* The parsers of the sections the models here leave empty.
parseSecrets(fs) ==
  IF ~Exists(fs, <<"secrets">>) THEN Parsed(NilMap, "")
  ELSE parseJSON(fs, <<"secrets", FileConfig>>)
parseEnvironments(fs) ==
  IF ~Exists(fs, <<"environments">>) THEN Parsed(NilMap, "")
  ELSE parseJSON(fs, <<"environments", FileConfig>>)
RECURSIVE parseJSONFilesFrom(_, _, _, _)
parseJSONFilesFrom(fs, paths, i, out) ==
  IF i > Len(paths) \/ out.err # "" THEN out
  ELSE LET doc == parseJSON(fs, paths[i])
       IN IF doc.err # "" THEN Parsed(<<>>, doc.err)
          ELSE parseJSONFilesFrom(fs, paths, i + 1, Parsed(Append(out.v, doc.v), ""))
\* parseJSONFiles(dir): the documents of the files of dir
parseJSONFiles(fs, dir) ==
  LET names == SortNames({Base(q) : q \in {c \in Children(fs, dir) : c \in Files(fs)}})
  IN parseJSONFilesFrom(fs, [i \in 1..Len(names) |-> Append(dir, names[i])], 1, Parsed(<<>>, ""))
parseServices(fs) ==
  LET dirs == WalkDirs(fs, <<NameServices>>)
  IN parseJSONFilesFrom(fs, [i \in 1..Len(dirs) |-> Append(dirs[i], FileConfig)], 1, Parsed(<<>>, ""))
\* parseGraphQL(rootDir): ok is whether the graphql directory exists
parseGraphQL(fs) ==
  LET dir == <<NameGraphQL>> IN
  IF ~Exists(fs, dir) THEN [v |-> GraphQL(NilMap), ok |-> FALSE, err |-> ""]
  ELSE LET config == parseJSON(fs, Join(dir, <<FileConfig>>))
       IN [v |-> GraphQL(config.v), ok |-> config.err = "", err |-> config.err]

\* The section parsers LoadData calls, in its order.
LoadOrder ==
  << "secrets", "environments", "values", "auth", "sync", "functions", "triggers",
     "graphql", "services", "data_sources", "http_endpoints" >>

\* One section of LoadData on the receiver `app`: the parser's result is
\* assigned to the field unless the parser failed.
LoadSection(sec, fs, app) ==
  LET set(field, p) == [app |-> IF p.err = "" THEN [app EXCEPT ![field] = p.v] ELSE app,
                        err |-> p.err]
  IN CASE sec = "secrets" -> set("Secrets", parseSecrets(fs))
       [] sec = "environments" -> set("Environments", parseEnvironments(fs))
       [] sec = "values" -> set("Values", parseJSONFiles(fs, <<NameValues>>))
       [] sec = "auth" -> set("Auth", parseAuth(fs))
       [] sec = "sync" -> set("Sync", parseSync(fs))
       [] sec = "functions" -> set("Functions", parseFunctionsV2(fs))
       [] sec = "triggers" -> set("Triggers", parseJSONFiles(fs, <<NameTriggers>>))
       [] sec = "graphql" ->
            LET g == parseGraphQL(fs)
            IN [app |-> IF g.err = "" /\ g.ok THEN [app EXCEPT !.GraphQL = g.v] ELSE app,
                err |-> g.err]
       [] sec = "services" -> set("Services", parseServices(fs))
       [] sec = "data_sources" -> set("DataSources", parseDataSources(fs))
       [] sec = "http_endpoints" -> set("HTTPEndpoints", parseHTTPEndpoints(fs))


\* ------------------------------------------------------------ inputs
S(x) == Str(<<x>>)
Named(n) == Obj([name |-> n])
\* a schema document, {"properties": {}}
Schema1 == Obj([properties |-> Obj(<<>>)])
Rule(db, coll, schema) == Obj([database |-> db, collection |-> coll, schema |-> schema])
\* a rule with no "database" field
RuleNoDB == Obj([collection |-> S("coll1"), schema |-> Schema1])
\* a rule with no "schema" field
RuleNoSchema == Obj([database |-> S("db1"), collection |-> S("coll2")])

\* The data sources a model is made of.
DSValues ==
  { DataSourceStructure(Named(S("ds1")), <<Rule(S("db1"), S("coll1"), Schema1)>>),
    DataSourceStructure(Named(S("ds2")), <<>>),
    DataSourceStructure(Obj([name |-> S("ds1"), type |-> S("lake")]), <<RuleNoSchema>>),
    DataSourceStructure(Named(S("ds1")), <<RuleNoDB>>),
    DataSourceStructure(Obj([type |-> S("lake")]), <<>>),
    DataSourceStructure(Named(Num), <<>>),
    DataSourceStructure(Named(Str(<<"..", "functions">>)), <<>>) }

SeqsUpTo(V, n) == UNION {[1..k -> V] : k \in 0..n}
DSSeqs == SeqsUpTo(DSValues, MaxDS)

Webhook(name, src) == Obj([name |-> name, source |-> src, run_as_system |-> S("true")])
Endpoint1 == HTTPEndpointStructure(Named(S("ep1")), <<Webhook(S("wh1"), S("src1"))>>)
\* The HTTP endpoints a model is made of.
HTTPSeqs ==
  { <<>>,
    <<Endpoint1>>,
    <<HTTPEndpointStructure(Obj([type |-> S("http")]), <<>>)>>,
    <<HTTPEndpointStructure(Named(S("ep1")), <<Obj([source |-> S("src1")])>>)>>,
    <<HTTPEndpointStructure(Named(S("ep1")), <<Obj([name |-> S("wh1")])>>)>> }

Providers1 == Obj([anon |-> Obj([name |-> S("anon-user"), disabled |-> S("false")])])
AuthValues ==
  { NilAuth, Auth(NilMap, NilMap), Auth(NilMap, Providers1),
    Auth(Obj([enabled |-> S("false")]), Providers1) }
SyncValues == { NilSync, Sync(NilMap), Sync(Obj([development_mode_enabled |-> S("false")])) }
GraphQLValues == { NilGraphQL, GraphQL(Obj([use_natural_pluralization |-> S("true")])) }

\* The keys of a function sources map, each with its source text.
SourceText ==
  [ k \in { <<"a.js">>, <<".", "a.js">>, <<"lib", "b.js">>, <<"notes.txt">>,
            <<"..", "auth", "providers.json">>, <<"a.js", "b.js">> } |->
      IF k = <<"a.js">> THEN S("src1") ELSE S("src2") ]
SourceMaps ==
  { [k \in K |-> SourceText[k]] :
      K \in {K \in SUBSET DOMAIN SourceText : Cardinality(K) <= MaxSources} }
FunctionsValues == {NilFunctions} \cup {Functions(Arr(<<>>), src) : src \in SourceMaps}

EmptyApp == AppStructureV2(NilAuth, NilSync, NilFunctions, NilGraphQL, <<>>, <<>>)

\* The app data a behaviour starts from: the optional sections in every
\* combination; the function sources with and without auth; the data
\* sources with and without an HTTP endpoint; the HTTP endpoints.
Models ==
  { AppStructureV2(au, sy, fn, gq, <<>>, <<>>) :
      au \in AuthValues, sy \in SyncValues, gq \in GraphQLValues,
      fn \in {NilFunctions, Functions(Arr(<<>>), <<>>), Functions(NilArr, [k \in {<<"a.js">>} |-> SourceText[k]])} }
  \cup { AppStructureV2(au, NilSync, fn, NilGraphQL, <<>>, <<>>) :
      au \in {NilAuth, Auth(NilMap, Providers1)}, fn \in FunctionsValues }
  \cup { AppStructureV2(NilAuth, NilSync, fn, NilGraphQL, ds, he) :
      fn \in {NilFunctions, Functions(Arr(<<>>), <<>>)}, ds \in DSSeqs,
      he \in {<<>>, <<Endpoint1>>} }
  \cup { AppStructureV2(NilAuth, NilSync, NilFunctions, NilGraphQL, <<>>, he) : he \in HTTPSeqs }


\* A directory tree from its files and its (possibly empty) directories.
Tree(files, dirs) ==
  [ files |-> files,
    dirs |-> UNION {Prefixes(Dir(p)) : p \in DOMAIN files} \cup UNION {Prefixes(d) : d \in dirs} \cup {<<>>} ]

DirColl1 == <<NameDataSources, "ds1", "db1", "coll1">>
\* a data source with a rule and its schema, and a collection directory without rules.json
TreeRules ==
  Tree( (<<NameDataSources, "ds1", FileConfig>> :> Named(S("ds1")))
        @@ (Append(DirColl1, FileRules) :> Obj([database |-> S("db1"), collection |-> S("coll1")]))
        @@ (Append(DirColl1, FileSchema) :> Schema1),
        {<<NameDataSources, "ds1", "db1", "coll2">>} )
\* a rule without schema.json, whose document has no "database" field
TreeRuleOnly ==
  Tree( (<<NameDataSources, "ds2", FileConfig>> :> Named(S("ds2")))
        @@ (<<NameDataSources, "ds2", "db1", "coll1", FileRules>> :> Obj([collection |-> S("coll1")])),
        {} )
\* collection directories without rules.json before and between the two that hold one
TreeSkip ==
  Tree( (<<NameDataSources, "ds1", FileConfig>> :> Named(S("ds1")))
        @@ (<<NameDataSources, "ds1", "db1", "coll2", FileRules>>
              :> Obj([database |-> S("db1"), collection |-> S("coll2")]))
        @@ (<<NameDataSources, "ds1", "db2", "coll1", FileRules>>
              :> Obj([database |-> S("db2"), collection |-> S("coll1")])),
        {<<NameDataSources, "ds1", "db1", "coll1">>, <<NameDataSources, "ds1", "db2", "coll2">>} )
\* an empty auth directory and an empty data_sources directory
TreeEmptyDirs == Tree(<<>>, {<<NameAuth>>, <<NameDataSources>>})
\* an auth directory whose providers.json is no JSON document
TreeBadAuth ==
  Tree( (<<NameAuth, FileProviders>> :> Txt(<<"src1">>))
        @@ (<<NameSync, FileConfig>> :> Obj(<<>>)), {} )
\* function sources at three depths, each beside a file with another extension
DirDeep == <<NameFunctions, "lib", "lib", "lib">>
TreeFunctions ==
  Tree( (<<NameFunctions, FileConfig>> :> Arr(<<>>))
        @@ (<<NameFunctions, "a.js">> :> Txt(<<"src1">>))
        @@ (<<NameFunctions, "lib", "b.js">> :> Txt(<<"src2">>))
        @@ (Append(DirDeep, "a.js") :> Txt(<<"src2">>))
        @@ (Append(DirDeep, "notes.txt") :> Txt(<<"src1">>))
        @@ (<<NameFunctions, "notes.txt">> :> Txt(<<"src2">>)), {} )
\* an HTTP endpoint with a webhook, and graphql
TreeHTTP ==
  Tree( (<<NameHTTPEndpoints, "ep1", FileConfig>> :> Named(S("ep1")))
        @@ (<<NameHTTPEndpoints, "ep1", "wh1", FileConfig>> :> Named(S("wh1")))
        @@ (<<NameHTTPEndpoints, "ep1", "wh1", FileSource>> :> Txt(<<"src1">>))
        @@ (<<NameGraphQL, FileConfig>> :> Obj(<<>>)), {} )

\* The trees a root directory starts with, besides the empty one.
Trees == {TreeRules, TreeRuleOnly, TreeSkip, TreeEmptyDirs, TreeBadAuth, TreeFunctions, TreeHTTP}

\* The receivers LoadData is called on when the behaviour starts from a tree.
Receivers ==
  { EmptyApp,
    AppStructureV2(Auth(NilMap, Providers1), Sync(Obj(<<>>)), NilFunctions,
                   GraphQL(Obj(<<>>)), <<>>, <<>>) }

\* ------------------------------------------------------------ the state machine
Roots == {"A", "B"}

VARIABLES
  a,      \* the receiver: the app data in memory
  disk,   \* the tree of each root directory
  pc,     \* "idle", or the call in progress: "write" or "load"
  root,   \* the rootDir of the call
  step,   \* the next section of the call, an index of WriteOrder or LoadOrder
  err,    \* the error of the call ("" is nil)
  ran,    \* the sections that ran in the call, in order, each with its error
  wrote,  \* the <<step, path>> WriteFile wrote in the call
  iter,   \* the iteration order of the function sources map in the call
  pre,    \* the tree of rootDir when the call began
  hist,   \* the calls that returned: [op, root, err, pre, app, iter]
  m0,     \* the app data the behaviour began with
  cmd     \* the create command: its inputs, its position in Handler, the calls it made

vars == <<a, disk, pc, root, step, err, ran, wrote, iter, pre, hist, m0, cmd>>

\* createInputs, as far as Handler branches on them
Inputs(dryRun, template, remoteApp, cluster, dataLake, project) ==
  [DryRun |-> dryRun, Template |-> template, RemoteApp |-> remoteApp,
   Cluster |-> cluster, DataLake |-> dataLake, Project |-> project]
\* a command at the position `at` of Handler; ret is "" while Handler runs
Command(inputs, at, calls, ret) == [inputs |-> inputs, at |-> at, calls |-> calls, ret |-> ret]
\* no create command is running
NoCmd == Command(Inputs(FALSE, "", "", "", "", ""), "none", <<>>, "")

Init ==
  /\ \/ a \in Models /\ disk = [r \in Roots |-> EmptyFS]
     \/ a \in Receivers /\ \E t \in Trees : disk = [r \in Roots |-> IF r = "A" THEN t ELSE EmptyFS]
  /\ pc = "idle" /\ root = "A" /\ step = 1 /\ err = ""
  /\ ran = <<>> /\ wrote = {} /\ iter = <<>> /\ pre = EmptyFS /\ hist = <<>>
  /\ m0 = a
  /\ cmd = NoCmd

\* the orders a Go map with the keys K can be ranged over
Orders(K) == {o \in [1..Cardinality(K) -> K] : \A i, j \in 1..Cardinality(K) : o[i] = o[j] => i = j}

Begin(op, r) ==
  /\ pc = "idle" /\ Len(hist) < MaxCalls
  /\ pc' = op /\ root' = r /\ step' = 1 /\ err' = "" /\ ran' = <<>> /\ wrote' = {}
  /\ iter' = <<>> /\ pre' = disk[r]
  /\ UNCHANGED <<a, disk, hist, m0, cmd>>

\* a.WriteData(rootDir) is called
CallWriteData(r) == Begin("write", r)

\* WriteData runs its next section writer
WriteStep ==
  /\ pc = "write" /\ err = "" /\ step <= Len(WriteOrder)
  /\ LET sec == WriteOrder[step] IN
     \E order \in (IF sec = "functions" THEN Orders(DOMAIN a.Functions.Sources) ELSE {iter}) :
       LET r == WriteSection(sec, Start(disk[root]), a, order) IN
       /\ disk' = [disk EXCEPT ![root] = r.fs]
       /\ err' = r.err
       /\ wrote' = wrote \cup {<<step, p>> : p \in r.wr}
       /\ iter' = order
       /\ ran' = Append(ran, [sec |-> sec, err |-> r.err])
  /\ step' = step + 1
  /\ UNCHANGED <<a, pc, root, pre, hist, m0, cmd>>

Return(op, n) ==
  /\ pc = op /\ (err # "" \/ step > n)
  /\ pc' = "idle"
  /\ hist' = Append(hist, [op |-> op, root |-> root, err |-> err, pre |-> pre, app |-> a, iter |-> iter])
  /\ UNCHANGED <<a, disk, root, step, err, ran, wrote, iter, pre, m0, cmd>>

\* WriteData returns: the first error, or nil after the last writer
ReturnWrite == Return("write", Len(WriteOrder))

\* a.LoadData(rootDir) is called
CallLoadData(r) == Begin("load", r)

\* LoadData runs its next section parser and assigns the field
LoadStep ==
  /\ pc = "load" /\ err = "" /\ step <= Len(LoadOrder)
  /\ LET l == LoadSection(LoadOrder[step], disk[root], a) IN
       /\ a' = l.app
       /\ err' = l.err
       /\ ran' = Append(ran, [sec |-> LoadOrder[step], err |-> l.err])
  /\ step' = step + 1
  /\ UNCHANGED <<disk, pc, root, wrote, iter, pre, hist, m0, cmd>>

\* LoadData returns: the first error, or nil after the last parser
ReturnLoad == Return("load", Len(LoadOrder))

Next ==
  \/ \E r \in Roots : CallWriteData(r)
  \/ WriteStep
  \/ ReturnWrite
  \/ \E r \in Roots : CallLoadData(r)
  \/ LoadStep
  \/ ReturnLoad

Spec == Init /\ [][Next]_vars


\* ------------------------------------------------------------ notions the properties use
Last == hist[Len(hist)]
\* the call `op` has returned and nothing was called since
Returned(op) == pc = "idle" /\ Len(hist) > 0 /\ Last.op = op
\* the section `sec` of the call `op` has just run
JustRan(op, sec) == pc = op /\ Len(ran) > 0 /\ ran[Len(ran)].sec = sec
\* the paths the writer of `sec` wrote in the call
WrittenBy(sec) == {w[2] : w \in {x \in wrote : WriteOrder[x[1]] = sec}}
SeqAll(s, P(_)) == \A i \in 1..Len(s) : P(s[i])

\* A valid model: the naming fields the writers derive paths from are strings.
ValidRule(rule) == IsString(Get(rule, "database")) /\ IsString(Get(rule, "collection"))
ValidDS(ds) == IsString(Get(ds.Config, "name")) /\ SeqAll(ds.Rules, ValidRule)
ValidWebhook(w) == IsString(Get(w, "name")) /\ IsString(Get(w, NameSource))
ValidEndpoint(e) == IsString(Get(e.Config, "name")) /\ SeqAll(e.IncomingWebhooks, ValidWebhook)
Valid(m) == SeqAll(m.DataSources, ValidDS) /\ SeqAll(m.HTTPEndpoints, ValidEndpoint)

\* Equality of documents up to their JSON encoding (key order is no part of a value here).
SameDoc(x, y) == Norm(x) = Norm(y)
SameDocs(x, y) == Len(x) = Len(y) /\ \A i \in 1..Len(x) : SameDoc(x[i], y[i])
SameAuth(x, y) ==
  /\ x.isNil = y.isNil
  /\ SameDoc(x.CustomUserData, y.CustomUserData) /\ SameDoc(x.Providers, y.Providers)
SameSync(x, y) == x.isNil = y.isNil /\ SameDoc(x.Config, y.Config)
\* an absent section that Write materializes loads back present and empty
SameFunctions(x, y) ==
  IF x.isNil THEN ~y.isNil /\ SameDoc(y.Configs, Arr(<<>>)) /\ DOMAIN y.Sources = {}
  ELSE ~y.isNil /\ SameDoc(x.Configs, y.Configs) /\ x.Sources = y.Sources
SameGraphQL(x, y) ==
  IF x.isNil THEN ~y.isNil /\ SameDoc(y.Config, NilMap)
  ELSE ~y.isNil /\ SameDoc(x.Config, y.Config)
SameDataSources(x, y) ==
  /\ Len(x) = Len(y)
  /\ \A i \in 1..Len(x) : SameDoc(x[i].Config, y[i].Config) /\ SameDocs(x[i].Rules, y[i].Rules)
SameHTTPEndpoints(x, y) ==
  /\ Len(x) = Len(y)
  /\ \A i \in 1..Len(x) :
       SameDoc(x[i].Config, y[i].Config) /\ SameDocs(x[i].IncomingWebhooks, y[i].IncomingWebhooks)
RoundTripEq(m, l) ==
  /\ SameAuth(m.Auth, l.Auth) /\ SameSync(m.Sync, l.Sync)
  /\ SameFunctions(m.Functions, l.Functions) /\ SameGraphQL(m.GraphQL, l.GraphQL)
  /\ SameDataSources(m.DataSources, l.DataSources)
  /\ SameHTTPEndpoints(m.HTTPEndpoints, l.HTTPEndpoints)

\* WriteData(m0, dir) into the empty dir returned nil, then LoadData(dir) returned nil
RoundTripDone ==
  /\ Returned("load") /\ Len(hist) = 2 /\ err = ""
  /\ hist[1].op = "write" /\ hist[1].err = "" /\ hist[1].pre = EmptyFS
  /\ hist[1].root = root /\ hist[1].app = m0

\* C1: for every valid model m, WriteData(m, dir) into an empty directory and
\* then LoadData(dir) yield a model equal to m in every section, up to key
\* order and to the absent sections Write materializes.
C1_RoundTrip == (RoundTripDone /\ Valid(m0)) => RoundTripEq(m0, a)


\* the first data source whose Config has no string "name", or 0
FirstBad(dss) ==
  IF \E i \in 1..Len(dss) : ~IsString(Get(dss[i].Config, "name"))
  THEN CHOOSE i \in 1..Len(dss) :
         /\ ~IsString(Get(dss[i].Config, "name"))
         /\ \A j \in 1..(i - 1) : IsString(Get(dss[j].Config, "name"))
  ELSE 0
\* the files of a data source with a string name: its config.json, and the
\* rules.json and schema.json of its rules
OwnPaths(ds) ==
  LET name == Get(ds.Config, "name").s
      dir == <<NameDataSources>>
  IN {Join(dir, name \o <<FileConfig>>)}
     \cup UNION { {Join(RuleDir(dir, name, ds.Rules[j]), <<f>>) : f \in {FileRules, FileSchema}} :
                  j \in 1..Len(ds.Rules) }
\* writeDataSources has just run on data sources of which one has no string name
MissingName == JustRan("write", "data_sources") /\ FirstBad(a.DataSources) > 0
CreatedUnder(dir) == {p \in Files(disk[root]) \ Files(pre) : IsUnder(p, dir)}

\* C2 as stated: with a data source lacking a string "name" at any position,
\* writeDataSources returns an error and has created no file under data_sources/.
C2_NoFileCreated ==
  MissingName => (err # "" /\ CreatedUnder(<<NameDataSources>>) = {})

\* C2, amended: writeDataSources returns an error and has written no file for
\* the first data source lacking a string "name" nor for any data source after
\* it; every file it wrote belongs to a data source before that one.
C2_NothingWrittenFromMissingName ==
  MissingName =>
    /\ err # ""
    /\ WrittenBy("data_sources") \subseteq
         UNION {OwnPaths(a.DataSources[i]) : i \in 1..(FirstBad(a.DataSources) - 1)}

\* a data source was written before the one lacking a name was reached
C2_Witness ==
  /\ MissingName /\ FirstBad(a.DataSources) = 2 /\ err = "error writing datasources"
  /\ WrittenBy("data_sources") # {}


\* a string that is one path component
IsName(v) == v.t = "str" /\ Len(v.s) = 1 /\ v.s[1] \notin {".", ".."}
\* the collection directories of the i-th data source directory that hold rules.json
CollDirs(fs, i) ==
  LET dsDir == WalkDirs(fs, <<NameDataSources>>)[i]
  IN {c \in fs.dirs : Len(c) = 4 /\ IsUnder(c, dsDir) /\ Append(c, FileRules) \in Files(fs)}
\* the rule is the document of rules.json with the document of schema.json
\* under "schema" (doc and schema are the bytes of the two files)
Merged(rule, doc, schema) ==
  /\ Keys(rule) = Keys(doc) \cup {NameSchema}
  /\ \A k \in Keys(doc) \ {NameSchema} : Norm(rule.m[k]) = doc.m[k]
  /\ Norm(rule.m[NameSchema]) = schema
C3_Load ==
  (JustRan("load", "data_sources") /\ err = "") =>
    LET fs == disk[root] IN
    /\ Len(a.DataSources) = Len(WalkDirs(fs, <<NameDataSources>>))
    /\ \A i \in 1..Len(a.DataSources) :
         LET rules == a.DataSources[i].Rules IN
         /\ Len(rules) = Cardinality(CollDirs(fs, i))
         /\ \A c \in CollDirs(fs, i) :
              Append(c, FileSchema) \in Files(fs) =>
                \E j \in 1..Len(rules) :
                  Merged(rules[j], fs.files[Append(c, FileRules)], fs.files[Append(c, FileSchema)])
\* no rule written after the j-th rule of the i-th data source has the directory D
LastAt(dss, i, j, D) ==
  \A i2 \in i..Len(dss) : \A j2 \in 1..Len(dss[i2].Rules) :
    (i2 > i \/ j2 > j) =>
      RuleDir(<<NameDataSources>>, Sprintf(Get(dss[i2].Config, "name")), dss[i2].Rules[j2]) # D
C3_Write ==
  (JustRan("write", "data_sources") /\ err = "") =>
    \A i \in 1..Len(a.DataSources) : \A j \in 1..Len(a.DataSources[i].Rules) :
      LET rule == a.DataSources[i].Rules[j]
          name == Get(a.DataSources[i].Config, "name")
          db == Get(rule, "database")
          coll == Get(rule, "collection")
          D == <<NameDataSources>> \o name.s \o db.s \o coll.s
          fs == disk[root]
      IN (IsName(name) /\ IsName(db) /\ IsName(coll) /\ Has(rule, NameSchema)
            /\ LastAt(a.DataSources, i, j, D)) =>
           /\ {p \in WrittenBy("data_sources") : IsUnder(p, D)}
                = {Append(D, FileRules), Append(D, FileSchema)}
           /\ ~Has(fs.files[Append(D, FileRules)], NameSchema)
           /\ Keys(fs.files[Append(D, FileRules)]) = Keys(rule) \ {NameSchema}
           /\ \A k \in Keys(rule) \ {NameSchema} :
                fs.files[Append(D, FileRules)].m[k] = Norm(rule.m[k])
           /\ fs.files[Append(D, FileSchema)] = Norm(rule.m[NameSchema])

\* C3: for every collection directory holding rules.json and schema.json,
\* parseDataSources produces exactly one rule holding the rule fields and the
\* schema under the schema key; writeDataSources of such a rule writes exactly
\* rules.json and schema.json at data_sources/<name>/<database>/<collection>/,
\* rules.json without the schema key and schema.json equal to the schema.
C3_SchemaRuleMerge == C3_Load /\ C3_Write

\* the rule loaded from root A, with its schema, has been written to root B
C3_Witness ==
  /\ Len(hist) = 1 /\ hist[1].op = "load" /\ hist[1].root = "A" /\ hist[1].err = ""
  /\ JustRan("write", "data_sources") /\ err = "" /\ root = "B"
  /\ disk["A"] = TreeRules
  /\ Len(a.DataSources) = 1 /\ Len(a.DataSources[1].Rules) = 1
  /\ {Append(DirColl1, FileRules), Append(DirColl1, FileSchema)} \subseteq Files(disk["B"])
  /\ Merged(a.DataSources[1].Rules[1], disk["A"].files[Append(DirColl1, FileRules)], Schema1)
  /\ disk["B"].files[Append(DirColl1, FileSchema)] = Schema1
  /\ ~Has(disk["B"].files[Append(DirColl1, FileRules)], NameSchema)


\* a LoadData call is running or has returned last
InLoad == pc = "load" \/ Returned("load")
\* the parser of `sec` ran in the call, and whether it failed
Ran(sec) == \E k \in 1..Len(ran) : ran[k].sec = sec
FailedAt(sec) == \E k \in 1..Len(ran) : ran[k].sec = sec /\ ran[k].err # ""

\* C7: LoadData on a root without auth/ sets Auth to nil and raises no error
\* for it; with an auth/ directory, even an empty one, Auth is present; with an
\* empty data_sources/ directory the data sources are the empty sequence, and
\* no error is raised for it.
C7_AbsenceDetection ==
  LET fs == disk[root] IN
  /\ (InLoad /\ Ran("auth") /\ ~Exists(fs, <<NameAuth>>)) =>
       (a.Auth.isNil /\ ~FailedAt("auth"))
  /\ (InLoad /\ Ran("auth") /\ ~FailedAt("auth") /\ <<NameAuth>> \in fs.dirs) =>
       ~a.Auth.isNil
  /\ (InLoad /\ Ran("data_sources") /\ <<NameDataSources>> \in fs.dirs
        /\ Children(fs, <<NameDataSources>>) = {}) =>
       (a.DataSources = <<>> /\ ~FailedAt("data_sources"))

\* a receiver holding an Auth was loaded from a root without auth/, then from
\* a root with an empty auth/ and an empty data_sources/
C7_Witness ==
  /\ Returned("load") /\ Len(hist) = 2 /\ err = ""
  /\ hist[1].op = "load" /\ hist[1].err = "" /\ ~Exists(hist[1].pre, <<NameAuth>>)
  /\ ~m0.Auth.isNil /\ hist[1].app.Auth.isNil
  /\ disk[root] = TreeEmptyDirs /\ ~a.Auth.isNil /\ a.DataSources = <<>>

\* two WriteData calls of the same app data, both returning nil
TwoWrites ==
  /\ Returned("write") /\ Len(hist) = 2 /\ hist[1].op = "write"
  /\ hist[1].err = "" /\ hist[2].err = ""

\* C4: two WriteData calls of the same model into two different empty
\* directories produce identical file trees, whatever the iteration order of
\* the model's maps.
C4_Deterministic ==
  (TwoWrites /\ hist[1].root # hist[2].root /\ hist[1].pre = EmptyFS /\ hist[2].pre = EmptyFS)
    => disk[hist[1].root] = disk[hist[2].root]

\* C8: the file tree after WriteData(m, dir) twice in a row equals the tree
\* after the first of the two.
C8_Idempotent ==
  (TwoWrites /\ hist[1].root = hist[2].root) => disk[root] = hist[2].pre

\* C8 with the function sources ranged over in the same order both times.
C8_IdempotentSameOrder ==
  (Returned("write") /\ Len(hist) = 2 /\ hist[1].op = "write"
     /\ hist[1].root = hist[2].root /\ hist[1].iter = hist[2].iter)
    => disk[root] = hist[2].pre

\* C5: WriteData creates no directory or file for an optional section (Auth,
\* Functions, Sync, GraphQL) that is nil, always creates the directory of one
\* that is present, even when empty, and always creates the directories of
\* the data sources and of the HTTP endpoints.
C5_Materialization ==
  (Returned("write") /\ err = "" /\ pre = EmptyFS) =>
    LET fs == disk[root]
        made(isNil, dir) == IF isNil THEN ~Exists(fs, <<dir>>) /\ \A p \in Files(fs) : ~IsUnder(p, <<dir>>)
                            ELSE <<dir>> \in fs.dirs
    IN /\ made(a.Auth.isNil, NameAuth)
       /\ made(a.Functions.isNil, NameFunctions)
       /\ made(a.Sync.isNil, NameSync)
       /\ made(a.GraphQL.isNil, NameGraphQL)
       /\ <<NameDataSources>> \in fs.dirs
       /\ <<NameHTTPEndpoints>> \in fs.dirs

\* C5 for the sections nil and the collection sections alone: no auth/ for a
\* nil Auth, no sync/ for a nil Sync, data_sources/ and http_endpoints/ always.
C5_NilAuthSyncAndCollections ==
  (Returned("write") /\ err = "" /\ pre = EmptyFS
     /\ \A w \in wrote : IsUnder(w[2], <<WriteOrder[w[1]]>>)) =>
    LET fs == disk[root] IN
    /\ a.Auth.isNil => ~Exists(fs, <<NameAuth>>)
    /\ a.Sync.isNil => ~Exists(fs, <<NameSync>>)
    /\ <<NameDataSources>> \in fs.dirs
    /\ <<NameHTTPEndpoints>> \in fs.dirs

\* the path has a component fmt.Sprintf made of a value that is no string
FromNonString(p) == \E i \in 1..Len(p) : p[i] \in {"%!s(<nil>)", "%!s(float64=1)"}

\* C6: when a field a writer builds a path from (data source "name", rule
\* "database" and "collection", HTTP endpoint "name", webhook "name") is
\* absent or no string, the write returns an error and writes no file at a
\* path derived from that field.
C6_NamingValidated ==
  /\ (JustRan("write", "data_sources") /\ ~SeqAll(a.DataSources, ValidDS)) =>
       (err # "" /\ \A p \in WrittenBy("data_sources") : ~FromNonString(p))
  /\ (JustRan("write", "http_endpoints") /\ ~SeqAll(a.HTTPEndpoints, ValidEndpoint)) =>
       (err # "" /\ \A p \in WrittenBy("http_endpoints") : ~FromNonString(p))

\* C6 for the fields the writers do check: the names of data sources, HTTP
\* endpoints and webhooks.
C6_NamesValidated ==
  /\ (JustRan("write", "data_sources")
        /\ ~SeqAll(a.DataSources, LAMBDA ds : IsString(Get(ds.Config, "name")))) => err # ""
  /\ (JustRan("write", "http_endpoints") /\ ~SeqAll(a.HTTPEndpoints, ValidEndpoint)) => err # ""

\* the five section writers whose order is permuted, in the order WriteData runs them
SectionWriters == <<"functions", "auth", "sync", "data_sources", "http_endpoints">>

RECURSIVE RunWriters(_, _, _, _, _)
\* the writers `secs` from the i-th on, stopping at the first error
RunWriters(secs, i, r, app, order) ==
  IF i > Len(secs) \/ r.err # "" THEN r
  ELSE RunWriters(secs, i + 1, WriteSection(secs[i], r, app, order), app, order)

\* every file a section writer wrote in the call is under its section directory
Confined ==
  \A w \in wrote :
    (\E i \in 1..Len(SectionWriters) : SectionWriters[i] = WriteOrder[w[1]])
      => IsUnder(w[2], <<WriteOrder[w[1]]>>)

\* the section writers give the same result in every order, from the tree the call started on
Permutable ==
  \A o \in Orders({SectionWriters[i] : i \in 1..Len(SectionWriters)}) :
    LET x == RunWriters(o, 1, Start(pre), a, iter)
        y == RunWriters(SectionWriters, 1, Start(pre), a, iter)
    IN x.fs = y.fs /\ x.err = y.err

\* C9: the section writers (functions, auth, sync, data sources, HTTP
\* endpoints) run in any permutation produce the same final file tree, and no
\* writer creates or overwrites a file outside its own section directory.
C9_OrderIrrelevant == (Returned("write") /\ err = "") => (Confined /\ Permutable)

\* C9 for the calls whose writers stayed in their directories.
C9_PermutableWhenConfined == (Returned("write") /\ err = "" /\ Confined) => Permutable

\* the sections of the call that is running or has returned last
CallOrder == IF pc = "write" \/ Returned("write") THEN WriteOrder ELSE LoadOrder

\* the sections run in the fixed order and none runs after one that failed;
\* the call returns the error of the section that failed, or nil after the last
C10_FirstErrorReturned ==
  /\ Len(ran) <= Len(CallOrder)
  /\ \A k \in 1..Len(ran) : ran[k].sec = CallOrder[k] /\ (k < Len(ran) => ran[k].err = "")
  /\ Len(ran) > 0 => err = ran[Len(ran)].err
  /\ (pc = "idle" /\ Len(hist) > 0) =>
       (Last.err = err /\ (err = "" => Len(ran) = Len(CallOrder)))

\* the files the call wrote are in the tree when it returns, failed or not
C10_NoRollback == Returned("write") => \A w \in wrote : w[2] \in Files(disk[root])

\* every section of the app data is what its parser reads from the tree
Populated(app, fs) ==
  /\ app.Secrets = parseSecrets(fs).v
  /\ app.Environments = parseEnvironments(fs).v
  /\ app.Values = parseJSONFiles(fs, <<NameValues>>).v
  /\ app.Auth = parseAuth(fs).v
  /\ app.Sync = parseSync(fs).v
  /\ app.Functions = parseFunctionsV2(fs).v
  /\ app.Triggers = parseJSONFiles(fs, <<NameTriggers>>).v
  /\ app.GraphQL = (IF parseGraphQL(fs).ok THEN parseGraphQL(fs).v ELSE NilGraphQL)
  /\ app.Services = parseServices(fs).v
  /\ app.DataSources = parseDataSources(fs).v
  /\ app.HTTPEndpoints = parseHTTPEndpoints(fs).v

C10_Populated == (Returned("load") /\ err = "") => Populated(a, disk[root])

\* C10: the first error of a section parser or writer is returned and no
\* later section runs; the files already written are not rolled back; the
\* caller of LoadData gets an error or app data whose every section was
\* populated from the directory.
C10_FailFast == C10_FirstErrorReturned /\ C10_NoRollback /\ C10_Populated

\* C10 for every section but GraphQL, and for GraphQL when graphql/ exists.
C10_PopulatedButGraphQL ==
  (Returned("load") /\ err = "") =>
    LET fs == disk[root] IN
    Populated(IF Exists(fs, <<NameGraphQL>>) THEN a ELSE [a EXCEPT !.GraphQL = NilGraphQL], fs)

\* a receiver holding a GraphQL was loaded from a root without graphql/
C10_StaleGraphQL ==
  Returned("load") /\ err = "" /\ ~Exists(disk[root], <<NameGraphQL>>) /\ ~a.GraphQL.isNil

RECURSIVE CollsWithRules(_, _, _)
\* the collection directories below the database directories `dbs`, from the
\* i-th on, that hold rules.json, in walk order
CollsWithRules(fs, dbs, i) ==
  IF i > Len(dbs) THEN <<>>
  ELSE SelectSeq(WalkDirs(fs, dbs[i]), LAMBDA c : Exists(fs, Append(c, FileRules)))
         \o CollsWithRules(fs, dbs, i + 1)

\* the rule carries every field of the document of rules.json
FromRulesFile(rule, doc) ==
  /\ Keys(rule) \ {NameSchema} = Keys(doc) \ {NameSchema}
  /\ \A k \in Keys(doc) \ {NameSchema} : Norm(rule.m[k]) = doc.m[k]

\* a file of the data sources that is no JSON object
BadDataSourceFile(fs) ==
  \E p \in Files(fs) :
    /\ IsUnder(p, <<NameDataSources>>)
    /\ Base(p) \in {FileConfig, FileRules, FileSchema}
    /\ fs.files[p].t # "obj"

\* C11: in parseDataSources a collection directory without rules.json gives
\* no rule and no error, and every collection directory with rules.json gives
\* exactly one rule, the rules of a data source being in walk order.
C11_DirectorySkip ==
  JustRan("load", "data_sources") =>
    LET fs == disk[root]
        dss == WalkDirs(fs, <<NameDataSources>>)
    IN /\ err # "" => BadDataSourceFile(fs)
       /\ err = "" =>
            /\ Len(a.DataSources) = Len(dss)
            /\ \A i \in 1..Len(dss) :
                 LET colls == CollsWithRules(fs, WalkDirs(fs, dss[i]), 1)
                     rules == a.DataSources[i].Rules
                 IN /\ Len(rules) = Len(colls)
                    /\ \A j \in 1..Len(colls) :
                         FromRulesFile(rules[j], fs.files[Append(colls[j], FileRules)])

\* the data source of TreeSkip was parsed: two rules, of db1/coll2 then of db2/coll1
C11_Witness ==
  /\ JustRan("load", "data_sources") /\ err = "" /\ disk[root] = TreeSkip
  /\ Len(a.DataSources) = 1 /\ Len(a.DataSources[1].Rules) = 2
  /\ Get(a.DataSources[1].Rules[1], "collection") = S("coll2")
  /\ Get(a.DataSources[1].Rules[2], "database") = S("db2")

\* the files with the source extension at any depth under functions/
SourceFiles(fs) == {p \in Files(fs) : IsUnder(p, <<NameFunctions>>) /\ IsJS(p)}

\* C12: when functions/ exists, the parsed sources have exactly one entry per
\* file with the source extension at any depth under functions/, keyed by the
\* path relative to functions/ and holding the file's content, and no entry
\* for a file with another extension, functions/config.json included.
C12_SourceDiscovery ==
  (JustRan("load", "functions") /\ err = "" /\ <<NameFunctions>> \in disk[root].dirs) =>
    LET fs == disk[root]
        dir == <<NameFunctions>>
        sources == a.Functions.Sources
    IN /\ ~a.Functions.isNil
       /\ \A p \in SourceFiles(fs) :
            Rel(dir, p) \in DOMAIN sources /\ sources[Rel(dir, p)] = String(fs.files[p])
       /\ \A k \in DOMAIN sources : dir \o k \in SourceFiles(fs)
       /\ \A p \in Files(fs) :
            (IsUnder(p, dir) /\ ~IsJS(p)) => Rel(dir, p) \notin DOMAIN sources
       /\ <<FileConfig>> \notin DOMAIN sources

\* the functions of TreeFunctions were parsed: the source three directories
\* deep is there under its relative path, the notes beside it are not
C12_Witness ==
  /\ JustRan("load", "functions") /\ err = "" /\ disk[root] = TreeFunctions
  /\ DOMAIN a.Functions.Sources = {<<"a.js">>, <<"lib", "b.js">>, <<"lib", "lib", "lib", "a.js">>}
  /\ a.Functions.Sources[<<"lib", "lib", "lib", "a.js">>] = Str(<<"src2">>)
  /\ Append(DirDeep, "notes.txt") \in Files(disk[root])

\* the "name" of the i-th data source, and the config.json it is written to
NameOf(dss, i) == Get(dss[i].Config, "name")
ConfigPath(dss, i) == Join(<<NameDataSources>>, NameOf(dss, i).s \o <<FileConfig>>)
\* the names two data sources of the sequence share
Colliding(dss) ==
  {NameOf(dss, i) : i \in {k \in 1..Len(dss) : \E j \in 1..Len(dss) : j # k /\ NameOf(dss, j) = NameOf(dss, k)}}
\* every data source has a string name and two of them have the same
Collision(dss) == SeqAll(dss, LAMBDA ds : IsString(Get(ds.Config, "name"))) /\ Colliding(dss) # {}
\* how many data sources of the sequence have the name
CountOf(dss, name) == Cardinality({i \in 1..Len(dss) : NameOf(dss, i) = name})

\* writeDataSources of colliding names returns nil and config.json holds the
\* config of the last data source of its name
C13_LastConfigWins ==
  (JustRan("write", "data_sources") /\ Collision(a.DataSources)) =>
    /\ err = ""
    /\ \A i \in 1..Len(a.DataSources) :
         (\A j \in (i + 1)..Len(a.DataSources) : NameOf(a.DataSources, j) # NameOf(a.DataSources, i)) =>
           /\ ConfigPath(a.DataSources, i) \in Files(disk[root])
           /\ disk[root].files[ConfigPath(a.DataSources, i)] = MarshalJSON(a.DataSources[i].Config)

\* the app data with colliding names was written to the root of the call, the
\* call before this one
AfterCollision ==
  /\ Len(hist) > 0 /\ hist[1].op = "write" /\ hist[1].err = "" /\ hist[1].root = root
  /\ hist[1].pre = EmptyFS /\ Collision(hist[1].app.DataSources)
  /\ (Len(hist) = 1 \/ (Len(hist) = 2 /\ Returned("load")))

\* the load after it returns nil with one data source of the name
C13_LoadsOne ==
  (AfterCollision /\ Returned("load")) =>
    /\ err = ""
    /\ \A name \in Colliding(hist[1].app.DataSources) : CountOf(a.DataSources, name) = 1

\* C13: writing two data sources whose configs have the same "name" returns
\* no error, data_sources/<name>/config.json then holds the config of the
\* later one, and a load after it yields one data source of that name.
C13_LastWriteWins == C13_LastConfigWins /\ C13_LoadsOne

\* C13 for the names that are one path component.
C13_LastWriteWinsPlainNames ==
  /\ C13_LastConfigWins
  /\ (AfterCollision /\ Returned("load")
        /\ \A name \in Colliding(hist[1].app.DataSources) : IsName(name)) =>
       (err = "" /\ \A name \in Colliding(hist[1].app.DataSources) : CountOf(a.DataSources, name) = 1)

\* two data sources named "ds1" were written and loaded back as one, with the config of the second
C13_PlainCollision ==
  /\ AfterCollision /\ Returned("load") /\ err = ""
  /\ Len(hist[1].app.DataSources) = 2 /\ Len(a.DataSources) = 1
  /\ NameOf(hist[1].app.DataSources, 1) = S("ds1")
  /\ hist[1].app.DataSources[1].Config # hist[1].app.DataSources[2].Config
  /\ SameDoc(a.DataSources[1].Config, hist[1].app.DataSources[2].Config)

\* ------------------------------------------------------------ app create
\* CommandCreate.Handler, one step per call it makes. The backend directory
\* is the root "A", the frontend directory of a template the root "B".
backendDir == "A"
frontendDir == "B"

RECURSIVE LoadDataFrom(_, _, _)
\* a.LoadData(rootDir) from its i-th section on: the receiver as the call leaves it, and the error
LoadDataFrom(i, fs, app) ==
  IF i > Len(LoadOrder) THEN [app |-> app, err |-> ""]
  ELSE LET l == LoadSection(LoadOrder[i], fs, app)
       IN IF l.err # "" THEN l ELSE LoadDataFrom(i + 1, fs, l.app)

\* the input resolvers of Handler, in its order
ResolveOrder ==
  << "resolveRemoteApp", "ResolveGroupID", "resolveName", "resolveLocalPath",
     "resolveTemplateID", "resolveCluster", "resolveDataLake" >>
\* the resolver is called for the inputs
Applies(inputs, r) ==
  CASE r = "ResolveGroupID" -> inputs.Project = "" /\ inputs.RemoteApp = ""
    [] r = "resolveCluster" -> inputs.Cluster # ""
    [] r = "resolveDataLake" -> inputs.DataLake # ""
    [] OTHER -> TRUE

Call(c, ok) == [call |-> c, ok |-> ok]
Called(c) == \E i \in 1..Len(cmd.calls) : cmd.calls[i].call = c
\* the resolvers still to call
Pending ==
  {i \in 1..Len(ResolveOrder) : Applies(cmd.inputs, ResolveOrder[i]) /\ ~Called(ResolveOrder[i])}

\* Handler made the call c; it goes on at `at` if the call succeeded and returns the error if not
Goes(at, c, ok) ==
  cmd' = [cmd EXCEPT !.calls = Append(@, Call(c, ok)),
                     !.at = IF ok THEN at ELSE "done",
                     !.ret = IF ok THEN "" ELSE "err"]
\* Handler returns nil after the call c
ReturnsNil(c) ==
  cmd' = [cmd EXCEPT !.calls = Append(@, Call(c, TRUE)), !.at = "done", !.ret = "nil"]
\* the variables of a WriteData or LoadData call in steps, which Handler does not use
NoCall == UNCHANGED <<pc, root, step, err, ran, wrote, iter, pre, hist, m0>>
\* where Handler goes on once appLocal is there
AfterApp == IF cmd.inputs.Template # "" THEN "clientTemplate" ELSE "addDataSources"

\* the packages the remote client exports
ZipTrees == {TreeRules, TreeHTTP, TreeBadAuth}
\* local.NewApp with the api-key provider added
NewApp ==
  [EmptyApp EXCEPT !.Auth = Auth(NilMap,
     Obj("api-key" :> Obj([name |-> S("api-key"), type |-> S("api-key"), disabled |-> S("true")])))]
\* local.AddDataSource(appData, config)
AddDataSource(app, config) ==
  [app EXCEPT !.DataSources = Append(@, DataSourceStructure(config, <<>>))]
ClusterConfig ==
  Obj([name |-> S("ds1"), type |-> S("mongodb-atlas"), config |-> Obj([clusterName |-> S("ds1")])])
DataLakeConfig ==
  Obj([name |-> S("ds2"), type |-> S("datalake"), config |-> Obj([dataLakeName |-> S("ds2")])])

\* the next input resolver; its error is returned
ResolveStep ==
  /\ cmd.at = "resolve" /\ Pending # {}
  /\ LET i == CHOOSE k \in Pending : \A j \in Pending : k <= j IN
     \E ok \in BOOLEAN :
       Goes(IF Pending = {i} THEN "resolved" ELSE "resolve", ResolveOrder[i], ok)
  /\ UNCHANGED <<a, disk>> /\ NoCall

\* if cmd.inputs.DryRun: the logs are printed and Handler returns nil
DryRun ==
  /\ cmd.at = "resolved" /\ cmd.inputs.DryRun
  /\ ReturnsNil("Print")
  /\ UNCHANGED <<a, disk>> /\ NoCall

\* CreateApp called whatever DryRun is.
CreateApp_dryRunToo ==
  /\ cmd.at = "resolved"
  /\ \E ok \in BOOLEAN : Goes("app", "CreateApp", ok)
  /\ UNCHANGED <<a, disk>> /\ NoCall

\* clients.Realm.CreateApp
CreateApp ==
  /\ cmd.at = "resolved" /\ ~cmd.inputs.DryRun
  /\ \E ok \in BOOLEAN : Goes("app", "CreateApp", ok)
  /\ UNCHANGED <<a, disk>> /\ NoCall

\* no remote app: appLocal is a new app
CreateNewApp ==
  /\ cmd.at = "app" /\ cmd.inputs.RemoteApp = ""
  /\ a' = NewApp
  /\ Goes(AfterApp, "NewApp", TRUE)
  /\ UNCHANGED disk /\ NoCall

\* clients.Realm.Export of the remote app
Export ==
  /\ cmd.at = "app" /\ cmd.inputs.RemoteApp # ""
  /\ \E ok \in BOOLEAN : Goes("writeZip", "Export", ok)
  /\ UNCHANGED <<a, disk>> /\ NoCall

\* local.WriteZip(dir, zipPkg): the files of the package, or an error
WriteZip(at, next, dir) ==
  /\ cmd.at = at
  /\ \/ \E t \in ZipTrees : disk' = [disk EXCEPT ![dir] = t] /\ Goes(next, "WriteZip", TRUE)
     \/ UNCHANGED disk /\ Goes(next, "WriteZip", FALSE)
  /\ UNCHANGED a /\ NoCall

WriteZipBackend == WriteZip("writeZip", "loadApp", backendDir)

\* local.LoadApp(backendDir)
LoadApp ==
  /\ cmd.at = "loadApp"
  /\ LET l == LoadDataFrom(1, disk[backendDir], EmptyApp) IN
       a' = l.app /\ Goes(AfterApp, "LoadApp", l.err = "")
  /\ UNCHANGED disk /\ NoCall

\* clients.Realm.ClientTemplate
ClientTemplate ==
  /\ cmd.at = "clientTemplate"
  /\ \E ok \in BOOLEAN : Goes("writeZipClient", "ClientTemplate", ok)
  /\ UNCHANGED <<a, disk>> /\ NoCall

WriteZipClient == WriteZip("writeZipClient", "addDataSources", frontendDir)

\* local.AddDataSource for the cluster and for the data lake
AddDataSources ==
  /\ cmd.at = "addDataSources"
  /\ LET a1 == IF cmd.inputs.Cluster # "" THEN AddDataSource(a, ClusterConfig) ELSE a
     IN a' = IF cmd.inputs.DataLake # "" THEN AddDataSource(a1, DataLakeConfig) ELSE a1
  /\ cmd' = [cmd EXCEPT !.at = "write"]
  /\ UNCHANGED disk /\ NoCall

\* appLocal.Write(): WriteData of the app data into the backend directory
AppWrite ==
  /\ cmd.at = "write"
  /\ \E order \in Orders(DOMAIN a.Functions.Sources) :
       LET r == RunWriters(WriteOrder, 1, Start(disk[backendDir]), a, order) IN
       /\ disk' = [disk EXCEPT ![backendDir] = r.fs]
       /\ Goes("load", "Write", r.err = "")
  /\ UNCHANGED a /\ NoCall

\* appLocal.Load(): LoadData of the backend directory into the same app data
AppLoad ==
  /\ cmd.at = "load"
  /\ LET l == LoadDataFrom(1, disk[backendDir], a) IN
       a' = l.app /\ Goes("import", "Load", l.err = "")
  /\ UNCHANGED disk /\ NoCall

\* clients.Realm.Import of the app data; Handler prints the table and returns nil after it
Import ==
  /\ cmd.at = "import"
  /\ \/ ReturnsNil("Import")
     \/ Goes("done", "Import", FALSE)
  /\ UNCHANGED <<a, disk>> /\ NoCall

InitCreate ==
  /\ a = EmptyApp /\ disk = [r \in Roots |-> EmptyFS]
  /\ pc = "idle" /\ root = "A" /\ step = 1 /\ err = ""
  /\ ran = <<>> /\ wrote = {} /\ iter = <<>> /\ pre = EmptyFS /\ hist = <<>>
  /\ m0 = a
  /\ \E dryRun \in BOOLEAN, template \in {"", "web"}, remoteApp \in {"", "app1"},
        cluster \in {"", "ds1"}, dataLake \in {"", "ds2"}, project \in {"", "p1"} :
       cmd = Command(Inputs(dryRun, template, remoteApp, cluster, dataLake, project),
                     "resolve", <<>>, "")

NextCreate ==
  \/ ResolveStep
  \/ DryRun
  \/ CreateApp
  \/ CreateNewApp
  \/ Export
  \/ WriteZipBackend
  \/ LoadApp
  \/ ClientTemplate
  \/ WriteZipClient
  \/ AddDataSources
  \/ AppWrite
  \/ AppLoad
  \/ Import

SpecCreate == InitCreate /\ [][NextCreate]_vars

\* the calls of Handler that reach the remote app or write to the file system
Effects == {"CreateApp", "Export", "ClientTemplate", "Import", "WriteZip", "Write"}
\* every input resolver Handler called succeeded and none is left
Resolved ==
  /\ cmd.at \notin {"none", "resolve"}
  /\ \A i \in 1..Len(cmd.calls) :
       (\E k \in 1..Len(ResolveOrder) : ResolveOrder[k] = cmd.calls[i].call) => cmd.calls[i].ok
\* the call c succeeded before the i-th call
Before(c, i) == \E j \in 1..(i - 1) : cmd.calls[j] = Call(c, TRUE)

\* C14: with DryRun set and the inputs resolved, Handler returns nil and has
\* called none of CreateApp, Export, ClientTemplate, Import, WriteZip and
\* Write, the directories being as they were; without DryRun, CreateApp is
\* called before any local write, and Import only after Write and then Load
\* succeeded.
C14_DryRunNoSideEffects ==
  /\ cmd.inputs.DryRun =>
       /\ \A i \in 1..Len(cmd.calls) : cmd.calls[i].call \notin Effects
       /\ disk = [r \in Roots |-> EmptyFS]
       /\ (Resolved /\ cmd.at = "done") => cmd.ret = "nil"
  /\ ~cmd.inputs.DryRun =>
       \A i \in 1..Len(cmd.calls) :
         /\ cmd.calls[i].call \in {"WriteZip", "Write"} => Before("CreateApp", i)
         /\ cmd.calls[i].call = "Import" =>
              \E k \in 1..(i - 1) : cmd.calls[k] = Call("Load", TRUE) /\ Before("Write", k)

\* a dry run of an app from a remote app and a template has returned
C14_Witness ==
  /\ cmd.inputs.DryRun /\ cmd.inputs.RemoteApp # "" /\ cmd.inputs.Template # ""
  /\ Resolved /\ cmd.at = "done" /\ cmd.ret = "nil"
  /\ cmd.calls[Len(cmd.calls)] = Call("Print", TRUE)

\* an app from a remote app and a template was created and imported
C14_Imported ==
  /\ ~cmd.inputs.DryRun /\ cmd.inputs.RemoteApp # "" /\ cmd.inputs.Template # ""
  /\ cmd.at = "done" /\ cmd.ret = "nil" /\ Called("Import")
  /\ disk[backendDir] # EmptyFS /\ disk[frontendDir] # EmptyFS

\* the section fields of the app data
SectionFields ==
  { "Secrets", "Environments", "Values", "Auth", "Sync", "Functions", "Triggers",
    "GraphQL", "Services", "DataSources", "HTTPEndpoints" }

\* LoadData of the tree into the receiver returns nil with the sections of `app`
LoadsTheSame(fs, receiver, app) ==
  LET l == LoadDataFrom(1, fs, receiver)
  IN l.err = "" /\ \A f \in SectionFields : l.app[f] = app[f]

\* C15: after a successful LoadData every section field is what any other
\* receiver, whatever it held before, gets from the same root directory; a
\* section absent from the directory is not present afterwards.
C15_DependsOnDirectoryOnly ==
  (Returned("load") /\ err = "") =>
    \A receiver \in Receivers \cup Models : LoadsTheSame(disk[root], receiver, a)

\* C15 for every section but GraphQL.
C15_ButGraphQL ==
  (Returned("load") /\ err = "") =>
    \A receiver \in Receivers \cup Models :
      LET l == LoadDataFrom(1, disk[root], receiver)
      IN l.err = "" /\ \A f \in SectionFields \ {"GraphQL"} : l.app[f] = a[f]

\* C15 in the create handler: after appLocal.Write and appLocal.Load the app
\* data is what a new receiver loads from the backend directory.
C15_AfterWriteAndLoad ==
  (cmd.at \in {"import", "done"} /\ Called("Load") /\ cmd.calls[Len(cmd.calls)].call \in {"Load", "Import"}
     /\ \A i \in 1..Len(cmd.calls) : cmd.calls[i].call = "Load" => cmd.calls[i].ok) =>
    LoadsTheSame(disk[backendDir], EmptyApp, a)

=============================================================================
